---- MODULE Spec2Model ----
(***************************************************************************)
(* gdoc2doc: a command-line run that lists Google Docs, asks a remote      *)
(* chat-completion endpoint which of them match a query, reconciles the    *)
(* answer with the listing, lets the user select, and exports.             *)
(*                                                                         *)
(* Strings are sequences of one-character strings, so that trimming,       *)
(* prefix stripping, replacement and case folding are computed character   *)
(* by character as the Go code does.                                       *)
(***************************************************************************)
EXTENDS Integers, Sequences, FiniteSets, TLC

VARIABLES
    pc,                 \* position of main
    exitCode,           \* the process exit status, meaningful when pc = "exit"
    query,              \* strings.Join(flag.Args(), " ")
    listOnly,           \* -list
    exportType,         \* -t / -type
    outputDirectory,    \* -output
    tokenEnv,           \* GOOGLE-DOCS_JWT_KEY: "unset", "garbage" or "json"
    keyEnv,             \* TOGETHER_API_KEY: "unset" or "set"
    documents,          \* result of ListGoogleDocs
    matchingNames,      \* result of FilterDocuments
    filterErr,          \* error of FilterDocuments ("" is nil)
    requests,           \* calls of client.Do made by FilterDocuments
    matchingDocuments,  \* result of FindMatchingDocuments
    input,              \* the line read from standard input, as main keeps it
    inputsRead,         \* calls of reader.ReadString
    pending,            \* documents still to be handed to exportDocument
    exports,            \* the calls of client.ExportDocument made, in order
    output,             \* the messages printed that the properties use
    httpResponse,       \* the answer of the matching endpoint to the request
    fn                  \* argument and result of a function applied on its own

vars == <<pc, exitCode, query, listOnly, exportType, outputDirectory, tokenEnv,
          keyEnv, documents, matchingNames, filterErr, requests,
          matchingDocuments, input, inputsRead, pending, exports, output,
          httpResponse, fn>>

----------------------------------------------------------------------------
(* Bounds of the model *)

\* longest document listing explored in a run of main
MaxListed == 2
\* longest document list handed to FindMatchingDocuments on its own
MaxDocs == 3
\* longest candidate list handed to FindMatchingDocuments on its own
MaxNames == 2
\* longest name handed to SanitizeFilename on its own
MaxLen == 3

----------------------------------------------------------------------------
(* Characters and the strings package *)

\* U+017F (long s) folds with s and S under simple case folding, and is its
\* own lower case.
LongS == "U+017F"

\* unicode.IsSpace, on the characters used here
IsSpace(c) == c \in {" ", "\n", "\t", "\r"}

Uppers == <<"A", "B", "C", "D", "E", "F", "G", "H", "I", "J", "K", "L", "M",
            "N", "O", "P", "Q", "R", "S", "T", "U", "V", "W", "X", "Y", "Z">>

Lowers == <<"a", "b", "c", "d", "e", "f", "g", "h", "i", "j", "k", "l", "m",
            "n", "o", "p", "q", "r", "s", "t", "u", "v", "w", "x", "y", "z">>

\* unicode.ToLower
LowerRune(c) ==
    IF \E i \in 1..Len(Uppers) : Uppers[i] = c
    THEN Lowers[CHOOSE i \in 1..Len(Uppers) : Uppers[i] = c]
    ELSE c

\* the orbit of unicode.SimpleFold, named by one of its members
FoldRune(c) == IF c = LongS THEN "s" ELSE LowerRune(c)

\* strings.ToLower
ToLower(s) == [i \in 1..Len(s) |-> LowerRune(s[i])]

\* strings.EqualFold
EqualFold(s, t) ==
    /\ Len(s) = Len(t)
    /\ \A i \in 1..Len(s) : FoldRune(s[i]) = FoldRune(t[i])

\* strings.HasPrefix
HasPrefix(s, prefix) ==
    /\ Len(s) >= Len(prefix)
    /\ SubSeq(s, 1, Len(prefix)) = prefix

\* strings.Contains
Contains(s, substr) ==
    \E i \in 0..(Len(s) - Len(substr)) : SubSeq(s, i + 1, i + Len(substr)) = substr

\* strings.TrimPrefix
TrimPrefix(s, prefix) ==
    IF HasPrefix(s, prefix) THEN SubSeq(s, Len(prefix) + 1, Len(s)) ELSE s

RECURSIVE TrimLeft(_)
TrimLeft(s) ==
    IF s # <<>> /\ IsSpace(Head(s)) THEN TrimLeft(Tail(s)) ELSE s

RECURSIVE TrimRight(_)
TrimRight(s) ==
    IF s # <<>> /\ IsSpace(s[Len(s)]) THEN TrimRight(SubSeq(s, 1, Len(s) - 1)) ELSE s

\* strings.TrimSpace
TrimSpace(s) == TrimRight(TrimLeft(s))

\* strings.ReplaceAll, for a non-empty old
RECURSIVE ReplaceAll(_, _, _)
ReplaceAll(s, old, new) ==
    IF s = <<>> THEN <<>>
    ELSE IF HasPrefix(s, old)
         THEN new \o ReplaceAll(SubSeq(s, Len(old) + 1, Len(s)), old, new)
         ELSE <<Head(s)>> \o ReplaceAll(Tail(s), old, new)

\* strings.Split(s, sep) for a one-character sep: the last piece is what
\* follows the last separator, so the result is never empty
RECURSIVE SplitFrom(_, _, _)
SplitFrom(s, sep, piece) ==
    IF s = <<>> THEN <<piece>>
    ELSE IF Head(s) = sep
         THEN <<piece>> \o SplitFrom(Tail(s), sep, <<>>)
         ELSE SplitFrom(Tail(s), sep, Append(piece, Head(s)))

Split(s, sep) == SplitFrom(s, sep, <<>>)

Digits == <<"0", "1", "2", "3", "4", "5", "6", "7", "8", "9">>

DigitValue(c) == (CHOOSE i \in 1..10 : Digits[i] = c) - 1

IsDigit(c) == \E i \in 1..10 : Digits[i] = c

RECURSIVE DecimalValue(_, _)
DecimalValue(s, acc) ==
    IF s = <<>> THEN acc ELSE DecimalValue(Tail(s), 10 * acc + DigitValue(Head(s)))

\* strconv.Atoi: an optional sign, then one or more decimal digits
Atoi(s) ==
    LET signed == s # <<>> /\ Head(s) \in {"+", "-"}
        body   == IF signed THEN Tail(s) ELSE s
    IN  IF body = <<>> \/ \E i \in 1..Len(body) : ~IsDigit(body[i])
        THEN [err |-> TRUE, value |-> 0]
        ELSE [err |-> FALSE,
              value |-> IF signed /\ Head(s) = "-"
                        THEN 0 - DecimalValue(body, 0)
                        ELSE DecimalValue(body, 0)]

----------------------------------------------------------------------------
(* SanitizeFilename *)

invalidChars == <<"\\", "/", ":", "*", "?", "\"", "<", ">", "|">>

ReplacementDropped == <<>>

\* the replacement text of strings.ReplaceAll(result, char, "_")
Replacement == <<"_">>

RECURSIVE SanitizeFrom(_, _)
SanitizeFrom(result, k) ==
    IF k > Len(invalidChars) THEN result
    ELSE SanitizeFrom(ReplaceAll(result, <<invalidChars[k]>>, Replacement), k + 1)

SanitizeFilename(name) == SanitizeFrom(name, 1)

----------------------------------------------------------------------------
(* FindMatchingDocuments *)

NameMatchesCaseSensitiveName(document, name) ==
    \/ document.Name = name
    \/ Contains(ToLower(document.Name), name)

\* the condition of the inner loop: exact match ignoring case, or contains
NameMatches(document, name) ==
    \/ EqualFold(document.Name, name)
    \/ Contains(ToLower(document.Name), ToLower(name))

RECURSIVE InnerLoopNoBreak(_, _, _, _)
InnerLoopNoBreak(docs, i, names, k) ==
    IF k > Len(names) THEN <<>>
    ELSE (IF NameMatches(docs[i], names[k]) THEN <<i>> ELSE <<>>)
         \o InnerLoopNoBreak(docs, i, names, k + 1)

\* the loop over matchingNames for the document at position i: what it
\* appends to matches, as positions of the document list; the break ends it
RECURSIVE InnerLoop(_, _, _, _)
InnerLoop(docs, i, names, k) ==
    IF k > Len(names) THEN <<>>
    ELSE IF NameMatches(docs[i], names[k]) THEN <<i>>
         ELSE InnerLoop(docs, i, names, k + 1)

RECURSIVE OuterLoop(_, _, _)
OuterLoop(docs, names, i) ==
    IF i > Len(docs) THEN <<>>
    ELSE InnerLoop(docs, i, names, 1) \o OuterLoop(docs, names, i + 1)

RECURSIVE PositionsByName(_, _, _)
PositionsByName(docs, names, k) ==
    IF k > Len(names) THEN <<>>
    ELSE SelectSeq([i \in 1..Len(docs) |-> i],
                   LAMBDA i : NameMatches(docs[i], names[k]))
         \o PositionsByName(docs, names, k + 1)

MatchedPositionsByName(docs, names) == PositionsByName(docs, names, 1)

\* the positions of the document list appended to matches, in append order
MatchedPositions(docs, names) == OuterLoop(docs, names, 1)

FindMatchingDocuments(docs, names) ==
    LET positions == MatchedPositions(docs, names)
    IN  [n \in 1..Len(positions) |-> docs[positions[n]]]

----------------------------------------------------------------------------
(* FilterDocuments: from the answer of the endpoint to the result *)

NONE == <<"N", "O", "N", "E">>

StripBulletsStarFirst(cleaned) ==
    TrimPrefix(TrimPrefix(cleaned, <<"*", " ">>), <<"-", " ">>)

\* strings.TrimPrefix(cleaned, "- ") then strings.TrimPrefix(cleaned, "* ")
StripBullets(cleaned) == TrimPrefix(TrimPrefix(cleaned, <<"-", " ">>), <<"*", " ">>)

\* if len(cleaned) > 3 && cleaned[1] == '.' && cleaned[2] == ' '
StripNumbered3(cleaned) ==
    IF Len(cleaned) > 3 /\ cleaned[2] = "." /\ cleaned[3] = " "
    THEN SubSeq(cleaned, 4, Len(cleaned)) ELSE cleaned

\* if len(cleaned) > 4 && cleaned[2] == '.' && cleaned[3] == ' '
StripNumbered4(cleaned) ==
    IF Len(cleaned) > 4 /\ cleaned[3] = "." /\ cleaned[4] = " "
    THEN SubSeq(cleaned, 5, Len(cleaned)) ELSE cleaned

\* the second prefix check skipped once the first has removed a prefix
LineStagesElseIf(line) ==
    LET trimmed    == TrimSpace(line)
        unbulleted == StripBullets(trimmed)
        after3     == StripNumbered3(unbulleted)
        after4     == IF after3 # unbulleted THEN after3 ELSE StripNumbered4(after3)
    IN  [line |-> line, trimmed |-> trimmed, unbulleted |-> unbulleted,
         after3 |-> after3, after4 |-> after4, cleaned |-> TrimSpace(after4)]

\* the values cleaned takes in the body of the loop over lines, one per
\* statement: both trims, the two TrimPrefix calls and the two prefix checks
LineStages(line) ==
    LET trimmed    == TrimSpace(line)
        unbulleted == StripBullets(trimmed)
        after3     == StripNumbered3(unbulleted)
        after4     == StripNumbered4(after3)
    IN  [line |-> line, trimmed |-> trimmed, unbulleted |-> unbulleted,
         after3 |-> after3, after4 |-> after4, cleaned |-> TrimSpace(after4)]

\* the body of the loop over lines, up to the final trim
CleanLine(line) == LineStages(line).cleaned

RECURSIVE CleanLinesKeepNone(_, _)
CleanLinesKeepNone(lines, k) ==
    IF k > Len(lines) THEN <<>>
    ELSE LET cleaned == CleanLine(lines[k])
         IN  (IF cleaned # <<>> THEN <<cleaned>> ELSE <<>>)
             \o CleanLinesKeepNone(lines, k + 1)

\* the loop over lines: what it appends to matchingNames
RECURSIVE CleanLines(_, _)
CleanLines(lines, k) ==
    IF k > Len(lines) THEN <<>>
    ELSE LET cleaned == CleanLine(lines[k])
         IN  (IF cleaned # <<>> /\ cleaned # NONE THEN <<cleaned>> ELSE <<>>)
             \o CleanLines(lines, k + 1)

NoError == ""
ErrSend == "failed to send request"
ErrRead == "failed to read response"
ErrParse == "failed to parse response"
ErrAPI == "API error"
ErrNoResponse == "no response from AI model"

\* content := strings.TrimSpace(response.Choices[0].Message.Content)
Content(response) == TrimSpace(response.choices[1])

\* the answer NONE reported as a failure
DecodedOutcomeNoneIsError(response) ==
    IF response.hasError
    THEN [names |-> <<>>, err |-> ErrAPI]
    ELSE IF Len(response.choices) = 0
    THEN [names |-> <<>>, err |-> ErrNoResponse]
    ELSE LET content == Content(response)
         IN  IF content = NONE \/ content = <<>>
             THEN [names |-> <<>>, err |-> ErrNoResponse]
             ELSE [names |-> CleanLines(Split(content, "\n"), 1), err |-> NoError]

\* a decoded response without completions taken for an empty answer
DecodedOutcomeNoChoicesCheck(response) ==
    IF response.hasError
    THEN [names |-> <<>>, err |-> ErrAPI]
    ELSE LET content == IF Len(response.choices) = 0 THEN <<>> ELSE Content(response)
         IN  IF content = NONE \/ content = <<>>
             THEN [names |-> <<>>, err |-> NoError]
             ELSE [names |-> CleanLines(Split(content, "\n"), 1), err |-> NoError]

\* what follows json.Unmarshal for a decoded response
DecodedOutcome(response) ==
    IF response.hasError
    THEN [names |-> <<>>, err |-> ErrAPI]
    ELSE IF Len(response.choices) = 0
    THEN [names |-> <<>>, err |-> ErrNoResponse]
    ELSE LET content == Content(response)
         IN  IF content = NONE \/ content = <<>>
             THEN [names |-> <<>>, err |-> NoError]
             ELSE [names |-> CleanLines(Split(content, "\n"), 1), err |-> NoError]

\* the result of FilterDocuments for one answer of the endpoint.  json.Marshal
\* of a struct of strings and http.NewRequest with a constant method and URL
\* do not fail, so the first outcome that can occur is that of client.Do.
FilterOutcome(response) ==
    IF response.transport = "fail" THEN [names |-> <<>>, err |-> ErrSend]
    ELSE IF response.read = "fail" THEN [names |-> <<>>, err |-> ErrRead]
    ELSE IF ~response.decodes THEN [names |-> <<>>, err |-> ErrParse]
    ELSE DecodedOutcome(response)

----------------------------------------------------------------------------
(* The export formats and the document records *)

FormatKeys ==
    { <<"p", "d", "f">>, <<"d", "o", "c", "x">>, <<"o", "d", "t">>,
      <<"r", "t", "f">>, <<"t", "x", "t">>, <<"h", "t", "m", "l">>,
      <<"e", "p", "u", "b">>, <<"m", "d">>,
      <<"m", "a", "r", "k", "d", "o", "w", "n">> }

\* var ExportFormats = map[string]ExportFormat{...}
ExportFormats(key) ==
    CASE key = <<"p", "d", "f">> ->
           [MimeType |-> "application/pdf", Extension |-> <<".", "p", "d", "f">>]
      [] key = <<"d", "o", "c", "x">> ->
           [MimeType |-> "application/vnd.openxmlformats-officedocument.wordprocessingml.document",
            Extension |-> <<".", "d", "o", "c", "x">>]
      [] key = <<"o", "d", "t">> ->
           [MimeType |-> "application/vnd.oasis.opendocument.text",
            Extension |-> <<".", "o", "d", "t">>]
      [] key = <<"r", "t", "f">> ->
           [MimeType |-> "application/rtf", Extension |-> <<".", "r", "t", "f">>]
      [] key = <<"t", "x", "t">> ->
           [MimeType |-> "text/plain", Extension |-> <<".", "t", "x", "t">>]
      [] key = <<"h", "t", "m", "l">> ->
           [MimeType |-> "text/html", Extension |-> <<".", "h", "t", "m", "l">>]
      [] key = <<"e", "p", "u", "b">> ->
           [MimeType |-> "application/epub+zip", Extension |-> <<".", "e", "p", "u", "b">>]
      [] key = <<"m", "d">> ->
           [MimeType |-> "text/markdown", Extension |-> <<".", "m", "d">>]
      [] key = <<"m", "a", "r", "k", "d", "o", "w", "n">> ->
           [MimeType |-> "text/markdown", Extension |-> <<".", "m", "d">>]

\* type GoogleDocument struct
GoogleDocument(id, name, description) ==
    [ID |-> id, Name |-> name, Description |-> description,
     ModifiedAt |-> "modifiedTime", CreatedAt |-> "createdTime"]

----------------------------------------------------------------------------
(* The inputs of a run: what the outside world can hand to the program *)

\* the documents the Drive holds; the backend gives each its own id
DrivePool ==
    { GoogleDocument("id1", <<"A", "b">>, <<>>),
      GoogleDocument("id2", <<"b">>, <<"d">>),
      GoogleDocument("id3", <<"a", "/", "b">>, <<>>) }

RECURSIVE SeqsUpTo(_, _)
SeqsUpTo(S, n) ==
    IF n = 0 THEN {<<>>}
    ELSE LET shorter == SeqsUpTo(S, n - 1)
         IN  shorter \cup {Append(q, x) : q \in shorter, x \in S}

\* a listing holds each document of the Drive at most once
Listings ==
    {l \in SeqsUpTo(DrivePool, MaxListed) :
        \A i, j \in 1..Len(l) : i # j => l[i].ID # l[j].ID}

\* message contents the endpoint may answer with
Contents ==
    { <<>>,
      NONE,
      <<" ", "N", "O", "N", "E", "\n">>,
      <<"\n", "\t">>,
      <<"n", "o", "n", "e">>,
      <<"N", "O", "N", "E", "\n", "A", "b">>,
      <<"b">>,
      <<"-", " ", "A", "B">>,
      <<"1", ".", " ", "a", "/", "b", "\n", "z">>,
      <<"a", "/", "b", "\n", "b">>,
      <<"z">> }

Responses ==
    { [transport |-> "fail", read |-> "ok", decodes |-> FALSE, hasError |-> FALSE,
       choices |-> <<>>],
      [transport |-> "ok", read |-> "fail", decodes |-> FALSE, hasError |-> FALSE,
       choices |-> <<>>],
      [transport |-> "ok", read |-> "ok", decodes |-> FALSE, hasError |-> FALSE,
       choices |-> <<>>],
      [transport |-> "ok", read |-> "ok", decodes |-> TRUE, hasError |-> TRUE,
       choices |-> <<>>],
      [transport |-> "ok", read |-> "ok", decodes |-> TRUE, hasError |-> TRUE,
       choices |-> <<NONE>>],
      [transport |-> "ok", read |-> "ok", decodes |-> TRUE, hasError |-> FALSE,
       choices |-> <<>>],
      [transport |-> "ok", read |-> "ok", decodes |-> TRUE, hasError |-> FALSE,
       choices |-> << <<"z">>, <<"b">> >>] }
    \cup
    { [transport |-> "ok", read |-> "ok", decodes |-> TRUE, hasError |-> FALSE,
       choices |-> <<c>>] : c \in Contents }

\* lines standard input may deliver; the empty one is end of input
InputLines ==
    { <<>>,
      <<"\n">>,
      <<"q", "\n">>,
      <<" ", "Q", " ", "\n">>,
      <<"a", "l", "l", "\n">>,
      <<"A", "L", "L", "\r", "\n">>,
      <<"1", "\n">>,
      <<"2">>,
      <<"+", "2", "\n">>,
      <<"0", "2", "\n">>,
      <<"3", "\n">>,
      <<"0", "\n">>,
      <<"-", "1", "\n">>,
      <<"4", "\n">>,
      <<"1", " ", "2", "\n">>,
      <<"x", "\n">> }

NoCall == [op |-> "none", arg |-> <<>>, arg2 |-> <<>>, result |-> <<>>,
           positions |-> <<>>, again |-> <<>>, done |-> FALSE]

NoResponse == [transport |-> "none", read |-> "none", decodes |-> FALSE,
               hasError |-> FALSE, choices |-> <<>>]

----------------------------------------------------------------------------
(* main and exportDocument, one action per stage of the run *)

Init ==
    /\ pc = "start"
    /\ exitCode = 0
    /\ query \in { <<>>, <<"b">> }
    /\ listOnly \in BOOLEAN
    /\ exportType \in { <<"p", "d", "f">>, <<"M", "D">>, <<"x", "l", "s">> }
    /\ outputDirectory \in { <<"o", "u", "t">>, <<".">>, <<>> }
    /\ tokenEnv \in {"unset", "garbage", "json"}
    /\ keyEnv \in {"unset", "set"}
    /\ documents = <<>>
    /\ matchingNames = <<>>
    /\ filterErr = NoError
    /\ requests = 0
    /\ matchingDocuments = <<>>
    /\ input = <<>>
    /\ inputsRead = 0
    /\ pending = <<>>
    /\ exports = <<>>
    /\ output = <<>>
    /\ httpResponse = NoResponse
    /\ fn = NoCall

Message(stream, text, about) == [stream |-> stream, text |-> text, about |-> about]

\* os.Exit(code) after printing msgs
Exit(code, msgs) ==
    /\ pc' = "exit"
    /\ exitCode' = code
    /\ output' = output \o msgs

\* format, validFormat := ExportFormats[strings.ToLower(*exportType)]
validFormat == ToLower(exportType) \in FormatKeys
format == ExportFormats(ToLower(exportType))

\* flag.Parse and the usage text
ParseFlags ==
    /\ pc = "start"
    /\ IF query = <<>> /\ ~listOnly
       THEN Exit(0, <<Message("stdout", "Usage", <<>>)>>)
       ELSE pc' = "format" /\ UNCHANGED <<exitCode, output>>
    /\ UNCHANGED <<query, listOnly, exportType, outputDirectory, tokenEnv, keyEnv,
                   documents, matchingNames, filterErr, requests, matchingDocuments,
                   input, inputsRead, pending, exports, httpResponse, fn>>

ValidateFormat ==
    /\ pc = "format"
    /\ IF ~validFormat
       THEN Exit(1, <<Message("stderr", "Error: unsupported format", exportType)>>)
       ELSE pc' = "token" /\ UNCHANGED <<exitCode, output>>
    /\ UNCHANGED <<query, listOnly, exportType, outputDirectory, tokenEnv, keyEnv,
                   documents, matchingNames, filterErr, requests, matchingDocuments,
                   input, inputsRead, pending, exports, httpResponse, fn>>

\* LoadGoogleDocsToken, as main uses it
LoadGoogleDocsToken ==
    /\ pc = "token"
    /\ CASE tokenEnv = "unset" ->
              Exit(1, <<Message("stderr", "Error: GOOGLE-DOCS_JWT_KEY not set", <<>>)>>)
         [] tokenEnv = "garbage" ->
              Exit(1, <<Message("stderr", "Error: failed to parse GOOGLE-DOCS_JWT_KEY", <<>>)>>)
         [] OTHER -> pc' = "client" /\ UNCHANGED <<exitCode, output>>
    /\ UNCHANGED <<query, listOnly, exportType, outputDirectory, tokenEnv, keyEnv,
                   documents, matchingNames, filterErr, requests, matchingDocuments,
                   input, inputsRead, pending, exports, httpResponse, fn>>

\* NewDriveClient, as main uses it
NewDriveClient ==
    /\ pc = "client"
    /\ \E created \in BOOLEAN :
         IF ~created
         THEN Exit(1, <<Message("stderr", "Error: failed to create Drive service", <<>>)>>)
         ELSE pc' = "list" /\ UNCHANGED <<exitCode, output>>
    /\ UNCHANGED <<query, listOnly, exportType, outputDirectory, tokenEnv, keyEnv,
                   documents, matchingNames, filterErr, requests, matchingDocuments,
                   input, inputsRead, pending, exports, httpResponse, fn>>

\* the listing with the list-only exit left out
ListGoogleDocsNoListOnlyExit ==
    /\ pc = "list"
    /\ \/ /\ Exit(1, <<Message("stderr", "Error: failed to list files", <<>>)>>)
          /\ UNCHANGED documents
       \/ \E listed \in Listings :
            /\ documents' = listed
            /\ IF Len(listed) = 0
               THEN Exit(0, <<Message("stdout", "No Google Docs found in your Drive.", <<>>)>>)
               ELSE pc' = "key" /\ UNCHANGED <<exitCode, output>>
    /\ UNCHANGED <<query, listOnly, exportType, outputDirectory, tokenEnv, keyEnv,
                   matchingNames, filterErr, requests, matchingDocuments,
                   input, inputsRead, pending, exports, httpResponse, fn>>

\* ListGoogleDocs, then the empty and list-only exits of main
ListGoogleDocs ==
    /\ pc = "list"
    /\ \/ /\ Exit(1, <<Message("stderr", "Error: failed to list files", <<>>)>>)
          /\ UNCHANGED documents
       \/ \E listed \in Listings :
            /\ documents' = listed
            /\ IF Len(listed) = 0
               THEN Exit(0, <<Message("stdout", "No Google Docs found in your Drive.", <<>>)>>)
               ELSE IF listOnly
               THEN Exit(0, [i \in 1..Len(listed) |->
                               Message("stdout", "listed", listed[i].Name)])
               ELSE pc' = "key" /\ UNCHANGED <<exitCode, output>>
    /\ UNCHANGED <<query, listOnly, exportType, outputDirectory, tokenEnv, keyEnv,
                   matchingNames, filterErr, requests, matchingDocuments,
                   input, inputsRead, pending, exports, httpResponse, fn>>

\* GetTogetherAPIKey, as main uses it
GetTogetherAPIKey ==
    /\ pc = "key"
    /\ IF keyEnv = "unset"
       THEN Exit(1, <<Message("stderr", "Error: TOGETHER_API_KEY not set", <<>>)>>)
       ELSE pc' = "filter" /\ UNCHANGED <<exitCode, output>>
    /\ UNCHANGED <<query, listOnly, exportType, outputDirectory, tokenEnv, keyEnv,
                   documents, matchingNames, filterErr, requests, matchingDocuments,
                   input, inputsRead, pending, exports, httpResponse, fn>>

\* the call of client.Do in FilterDocuments: how many requests one call sends
RequestsPerCallWithRetry(resp) == IF resp.transport = "fail" THEN 2 ELSE 1

RequestsPerCall(resp) == 1

\* FilterDocuments, and the check of its error in main
FilterDocuments ==
    /\ pc = "filter"
    /\ \E resp \in Responses :
         LET outcome == FilterOutcome(resp)
         IN  /\ httpResponse' = resp
             /\ requests' = requests + RequestsPerCall(resp)
             /\ matchingNames' = outcome.names
             /\ filterErr' = outcome.err
             /\ IF outcome.err # NoError
                THEN Exit(1, <<Message("stderr", "Error filtering documents", <<>>)>>)
                ELSE pc' = "reconcile" /\ UNCHANGED <<exitCode, output>>
    /\ UNCHANGED <<query, listOnly, exportType, outputDirectory, tokenEnv, keyEnv,
                   documents, matchingDocuments, input, inputsRead, pending,
                   exports, fn>>

\* matchingDocuments := FindMatchingDocuments(documents, matchingNames) and
\* the three cases of its length
Reconcile ==
    /\ pc = "reconcile"
    /\ LET matched == FindMatchingDocuments(documents, matchingNames)
       IN  /\ matchingDocuments' = matched
           /\ IF Len(matched) = 0
              THEN /\ Exit(0, <<Message("stdout", "No documents matched your query.", <<>>)>>)
                   /\ UNCHANGED pending
              ELSE IF Len(matched) > 1
              THEN /\ pc' = "choice"
                   /\ UNCHANGED <<exitCode, output, pending>>
              ELSE /\ pc' = "export"
                   /\ pending' = <<matched[1]>>
                   /\ UNCHANGED <<exitCode, output>>
    /\ UNCHANGED <<query, listOnly, exportType, outputDirectory, tokenEnv, keyEnv,
                   documents, matchingNames, filterErr, requests,
                   input, inputsRead, exports, httpResponse, fn>>

\* what main does with the line read, once trimmed and lowercased
SelectionRangeOffByOne(choice) ==
    IF choice = <<"q">> THEN [kind |-> "quit", selection |-> 0]
    ELSE IF choice = <<"a", "l", "l">> THEN [kind |-> "all", selection |-> 0]
    ELSE LET parsed == Atoi(choice)
         IN  IF parsed.err \/ parsed.value < 1 \/ parsed.value >= Len(matchingDocuments)
             THEN [kind |-> "invalid", selection |-> 0]
             ELSE [kind |-> "one", selection |-> parsed.value]

Selection(choice) ==
    IF choice = <<"q">> THEN [kind |-> "quit", selection |-> 0]
    ELSE IF choice = <<"a", "l", "l">> THEN [kind |-> "all", selection |-> 0]
    ELSE LET parsed == Atoi(choice)
         IN  IF parsed.err \/ parsed.value < 1 \/ parsed.value > Len(matchingDocuments)
             THEN [kind |-> "invalid", selection |-> 0]
             ELSE [kind |-> "one", selection |-> parsed.value]

\* the prompt: reader.ReadString('\n') and the branch on the input
ReadChoice ==
    /\ pc = "choice"
    /\ \E line \in InputLines :
         LET choice == TrimSpace(ToLower(line))
             chosen == Selection(choice)
         IN  /\ input' = choice
             /\ inputsRead' = inputsRead + 1
             /\ CASE chosen.kind = "quit" ->
                       /\ Exit(0, <<Message("stdout", "Exiting.", <<>>)>>)
                       /\ UNCHANGED pending
                  [] chosen.kind = "all" ->
                       /\ pc' = "export"
                       /\ pending' = matchingDocuments
                       /\ UNCHANGED <<exitCode, output>>
                  [] chosen.kind = "invalid" ->
                       /\ Exit(1, <<Message("stdout", "Invalid selection.", <<>>)>>)
                       /\ UNCHANGED pending
                  [] OTHER ->
                       /\ pc' = "export"
                       /\ pending' = <<matchingDocuments[chosen.selection]>>
                       /\ UNCHANGED <<exitCode, output>>
    /\ UNCHANGED <<query, listOnly, exportType, outputDirectory, tokenEnv, keyEnv,
                   documents, matchingNames, filterErr, requests, matchingDocuments,
                   exports, httpResponse, fn>>

\* outputPath of exportDocument
OutputPath(document) ==
    LET filename == SanitizeFilename(document.Name) \o format.Extension
    IN  IF outputDirectory # <<".">> /\ outputDirectory # <<>>
        THEN outputDirectory \o <<"/">> \o filename
        ELSE filename

\* the errors DriveClient.ExportDocument can return for a path ("" is nil); the
\* directory is created only when the path has one
ExportErrors(outputPath) ==
    {"", "failed to export document", "failed to create output file",
     "failed to write file"}
    \cup (IF Contains(outputPath, <<"/">>)
          THEN {"failed to create output directory"} ELSE {})

\* the loop over the documents to export, after a failure of exportDocument
RestAfterStopOnFailure(err) == IF err # "" THEN <<>> ELSE Tail(pending)

RestAfter(err) == Tail(pending)

\* exportDocument for the next document to export
ExportDocument ==
    /\ pc = "export"
    /\ pending # <<>>
    /\ LET document == Head(pending)
           outputPath == OutputPath(document)
       IN  \E err \in ExportErrors(outputPath) :
             /\ exports' = Append(exports,
                                 [ID |-> document.ID, outputPath |-> outputPath,
                                  MimeType |-> format.MimeType, err |-> err])
             /\ output' = output \o
                  (IF err # ""
                   THEN <<Message("stderr", "Error exporting", document.Name)>>
                   ELSE <<Message("stdout", "Export complete!", document.Name)>>)
             /\ pending' = RestAfter(err)
    /\ UNCHANGED <<pc, exitCode, query, listOnly, exportType, outputDirectory,
                   tokenEnv, keyEnv, documents, matchingNames, filterErr, requests,
                   matchingDocuments, input, inputsRead, httpResponse, fn>>

\* main returns once every export was attempted
Return ==
    /\ pc = "export"
    /\ pending = <<>>
    /\ pc' = "exit"
    /\ exitCode' = 0
    /\ UNCHANGED <<query, listOnly, exportType, outputDirectory, tokenEnv, keyEnv,
                   documents, matchingNames, filterErr, requests, matchingDocuments,
                   input, inputsRead, pending, exports, output, httpResponse, fn>>

Next ==
    \/ ParseFlags
    \/ ValidateFormat
    \/ LoadGoogleDocsToken
    \/ NewDriveClient
    \/ ListGoogleDocs
    \/ GetTogetherAPIKey
    \/ FilterDocuments
    \/ Reconcile
    \/ ReadChoice
    \/ ExportDocument
    \/ Return

Spec == Init /\ [][Next]_vars

----------------------------------------------------------------------------
(* FindMatchingDocuments and SanitizeFilename applied on their own, to     *)
(* arguments drawn from bounded sets                                       *)

\* no run of main is under way
Idle ==
    /\ pc = "idle"
    /\ exitCode = 0
    /\ query = <<>>
    /\ listOnly = FALSE
    /\ exportType = <<"p", "d", "f">>
    /\ outputDirectory = <<>>
    /\ tokenEnv = "unset"
    /\ keyEnv = "unset"
    /\ documents = <<>>
    /\ matchingNames = <<>>
    /\ filterErr = NoError
    /\ requests = 0
    /\ matchingDocuments = <<>>
    /\ input = <<>>
    /\ inputsRead = 0
    /\ pending = <<>>
    /\ exports = <<>>
    /\ output = <<>>
    /\ httpResponse = NoResponse

mainVars == <<pc, exitCode, query, listOnly, exportType, outputDirectory, tokenEnv,
              keyEnv, documents, matchingNames, filterErr, requests,
              matchingDocuments, input, inputsRead, pending, exports, output,
              httpResponse>>

\* documents to reconcile: two share a name, one has a long s
MatchDocPool ==
    { GoogleDocument("id1", <<"A", "b">>, <<>>),
      GoogleDocument("id2", <<"b">>, <<"d">>),
      GoogleDocument("id3", <<LongS>>, <<>>),
      GoogleDocument("id4", <<"b">>, <<>>) }

CandidatePool ==
    { <<"a", "B">>, <<"B">>, <<"s">>, <<"z">>, <<>> }

InitMatch ==
    /\ Idle
    /\ \E docs \in SeqsUpTo(MatchDocPool, MaxDocs), names \in SeqsUpTo(CandidatePool, MaxNames) :
         fn = [op |-> "FindMatchingDocuments", arg |-> docs, arg2 |-> names,
               result |-> <<>>, positions |-> <<>>, again |-> <<>>, done |-> FALSE]

CallFindMatchingDocuments ==
    /\ fn.op = "FindMatchingDocuments"
    /\ ~fn.done
    /\ fn' = [fn EXCEPT !.result = FindMatchingDocuments(fn.arg, fn.arg2),
                        !.positions = MatchedPositions(fn.arg, fn.arg2),
                        !.done = TRUE]
    /\ UNCHANGED mainVars

NextMatch == CallFindMatchingDocuments

SpecMatch == InitMatch /\ [][NextMatch]_vars

SanitizeAlphabet ==
    {"\\", "/", ":", "*", "?", "\"", "<", ">", "|", "a", "_"}

InitSanitize ==
    /\ Idle
    /\ \E name \in SeqsUpTo(SanitizeAlphabet, MaxLen) :
         fn = [op |-> "SanitizeFilename", arg |-> name, arg2 |-> <<>>,
               result |-> <<>>, positions |-> <<>>, again |-> <<>>, done |-> FALSE]

CallSanitizeFilename ==
    /\ fn.op = "SanitizeFilename"
    /\ ~fn.done
    /\ fn' = [fn EXCEPT !.result = SanitizeFilename(fn.arg), !.done = TRUE]
    /\ UNCHANGED mainVars

\* the name sanitized again, as a second export of the same file would
CallSanitizeFilenameAgain ==
    /\ fn.op = "SanitizeFilename"
    /\ fn.done
    /\ fn.again = <<>>
    /\ fn.result # <<>>
    /\ fn' = [fn EXCEPT !.again = SanitizeFilename(fn.result)]
    /\ UNCHANGED mainVars

NextSanitize == CallSanitizeFilename \/ CallSanitizeFilenameAgain

SpecSanitize == InitSanitize /\ [][NextSanitize]_vars

----------------------------------------------------------------------------
(* The parsing of an answer by FilterDocuments applied on its own, to      *)
(* contents made of lines drawn from a bounded set                         *)

\* most lines of one content
MaxLines == 2

\* lines the endpoint may write: bullets, numbers, both, neither
LinePool ==
    { <<>>,
      <<"b">>,
      <<" ", "b", " ">>,
      NONE,
      <<"-", " ", "N", "O", "N", "E">>,
      <<"-", " ", "A", "b">>,
      <<"*", " ", "A", "b">>,
      <<"-", " ", "*", " ", "X">>,
      <<"*", " ", "-", " ", "X">>,
      <<"-", " ", "-", " ", "X">>,
      <<"1", ".", " ", "A", "b">>,
      <<"1", "2", ".", " ", "A", "b">>,
      <<"1", ".", " ", "a", "b", ".", " ", "c", "d">>,
      <<"1", ".", " ", "2", ".", " ", "b">>,
      <<"a", "b", ".", " ", "c">>,
      <<"A", ".", " ", "b">>,
      <<"-", " ", "1", ".", " ", "b">>,
      <<"1", ".", " ", "-", " ", "b">>,
      <<"1", ".", " ">>,
      <<"1", ".", " ", " ", "b">>,
      <<"1", "b">> }

\* the lines, each followed by a line feed but the last
RECURSIVE JoinLines(_)
JoinLines(lines) ==
    IF Len(lines) = 0 THEN <<>>
    ELSE IF Len(lines) = 1 THEN lines[1]
    ELSE lines[1] \o <<"\n">> \o JoinLines(Tail(lines))

ParseContents == {JoinLines(lines) : lines \in SeqsUpTo(LinePool, MaxLines)}

DecodedResponse(content) ==
    [transport |-> "ok", read |-> "ok", decodes |-> TRUE, hasError |-> FALSE,
     choices |-> <<content>>]

InitParse ==
    /\ Idle
    /\ \E content \in ParseContents :
         fn = [op |-> "FilterDocuments", arg |-> content, names |-> <<>>,
               err |-> NoError, stages |-> <<>>, done |-> FALSE]

\* the values cleaned took for each line the loop of FilterDocuments saw
LoopStages(resp) ==
    LET content == Content(resp)
    IN  IF content = NONE \/ content = <<>> THEN <<>>
        ELSE LET lines == Split(content, "\n")
             IN  [k \in 1..Len(lines) |-> LineStages(lines[k])]

\* FilterDocuments once the endpoint has answered with the content
ParseResponse ==
    /\ fn.op = "FilterDocuments"
    /\ ~fn.done
    /\ LET resp == DecodedResponse(fn.arg)
           outcome == FilterOutcome(resp)
       IN  fn' = [fn EXCEPT !.names = outcome.names, !.err = outcome.err,
                            !.stages = LoopStages(resp), !.done = TRUE]
    /\ UNCHANGED mainVars

NextParse == ParseResponse

SpecParse == InitParse /\ [][NextParse]_vars

----------------------------------------------------------------------------
(* Properties *)

\* FilterDocuments has returned without error and main has reconciled
Reconciled ==
    /\ httpResponse # NoResponse
    /\ filterErr = NoError
    /\ pc \in {"choice", "export", "exit"}

\* the response decoded, carries no error field and has a completion
Answered ==
    /\ httpResponse.transport = "ok"
    /\ httpResponse.read = "ok"
    /\ httpResponse.decodes
    /\ ~httpResponse.hasError
    /\ Len(httpResponse.choices) >= 1

\* content is NONE between whitespace, or whitespace only
BlankOrNone(content) ==
    \/ \A i \in 1..Len(content) : IsSpace(content[i])
    \/ \E i, j \in 1..Len(content) :
         /\ SubSeq(content, i, j) = NONE
         /\ \A k \in 1..Len(content) : (k < i \/ k > j) => IsSpace(content[k])

\* C1: when the response decodes with no error field and its first completion
\* is "NONE" or empty once trimmed, FilterDocuments returns an empty list and
\* no error, and the run ends on the no-match path: exit code 0, no input
\* read, nothing exported.
C1_NoneIsEmptyMatch ==
    (Answered /\ BlankOrNone(httpResponse.choices[1])) =>
        /\ matchingNames = <<>>
        /\ filterErr = NoError
        /\ pc \in {"reconcile", "exit"}
        /\ exports = <<>>
        /\ inputsRead = 0
        /\ pc = "exit" =>
             /\ exitCode = 0
             /\ matchingDocuments = <<>>
             /\ output = <<Message("stdout", "No documents matched your query.", <<>>)>>

C1_Witness ==
    /\ pc = "exit"
    /\ Answered
    /\ httpResponse.choices[1] = <<" ", "N", "O", "N", "E", "\n">>
    /\ documents # <<>>
    /\ exitCode = 0

\* C2: a decodable response with no error field and zero completions makes
\* FilterDocuments fail with the "no response" error and no names, and no
\* other response yields that error: a transport failure, an unreadable or
\* undecodable body and an error field each yield an error of their own.
C2_ZeroCompletionsNoResponse ==
    httpResponse # NoResponse =>
        /\ (filterErr = ErrNoResponse) <=>
             (/\ httpResponse.transport = "ok"
              /\ httpResponse.read = "ok"
              /\ httpResponse.decodes
              /\ ~httpResponse.hasError
              /\ Len(httpResponse.choices) = 0)
        /\ filterErr = ErrNoResponse => matchingNames = <<>> /\ pc = "exit" /\ exitCode = 1
        /\ httpResponse.transport = "fail" => filterErr = ErrSend
        /\ (httpResponse.transport = "ok" /\ httpResponse.read = "ok"
              /\ ~httpResponse.decodes) => filterErr = ErrParse
        /\ (httpResponse.decodes /\ httpResponse.hasError) => filterErr = ErrAPI
        /\ Cardinality({ErrSend, ErrParse, ErrAPI, ErrNoResponse, NoError}) = 5

C2_Witness ==
    /\ httpResponse.decodes
    /\ ~httpResponse.hasError
    /\ httpResponse.choices = <<>>
    /\ filterErr = ErrNoResponse
    /\ pc = "exit"

\* C3: FindMatchingDocuments returns each position of the document list at
\* most once, whatever the candidates; when the documents have different ids
\* no record is returned twice.
C3_NoDocumentTwice ==
    (fn.op = "FindMatchingDocuments" /\ fn.done) =>
        /\ \A m, n \in 1..Len(fn.positions) : m # n => fn.positions[m] # fn.positions[n]
        /\ Len(fn.result) = Len(fn.positions)
        /\ (\A i, j \in 1..Len(fn.arg) : i # j => fn.arg[i].ID # fn.arg[j].ID) =>
             \A m, n \in 1..Len(fn.result) : m # n => fn.result[m] # fn.result[n]

\* two different candidates, and a repeated one, match the same document
C3_Witness ==
    /\ fn.op = "FindMatchingDocuments"
    /\ fn.done
    /\ fn.arg = <<GoogleDocument("id1", <<"A", "b">>, <<>>)>>
    /\ fn.arg2 \in { << <<"a", "B">>, <<"B">> >>, << <<"B">>, <<"B">> >> }
    /\ Len(fn.result) = 1

RECURSIVE IsSubsequence(_, _)
IsSubsequence(sub, full) ==
    IF sub = <<>> THEN TRUE
    ELSE IF full = <<>> THEN FALSE
    ELSE IF Head(sub) = Head(full) THEN IsSubsequence(Tail(sub), Tail(full))
    ELSE IsSubsequence(sub, Tail(full))

\* C4: the result of FindMatchingDocuments is a subsequence of the document
\* list: its records are records of the list, unaltered, in the order of the
\* list, whatever the order of the candidates.
C4_ResultIsSubsequence ==
    (fn.op = "FindMatchingDocuments" /\ fn.done) =>
        /\ IsSubsequence(fn.result, fn.arg)
        /\ \A n \in 1..Len(fn.result) : \E i \in 1..Len(fn.arg) : fn.result[n] = fn.arg[i]

\* the candidates name the documents in the reverse of the list's order
C4_Witness ==
    /\ fn.op = "FindMatchingDocuments"
    /\ fn.done
    /\ fn.arg = <<GoogleDocument("id3", <<LongS>>, <<>>),
                  GoogleDocument("id1", <<"A", "b">>, <<>>)>>
    /\ fn.arg2 = << <<"a", "B">>, <<"s">> >>
    /\ fn.result = fn.arg

\* C5: a document of the list is in the result exactly when some candidate
\* equals its name ignoring case or is, lowercased, a substring of its
\* lowercased name; with no candidates the result is empty.
C5_MatchedIffSomeCandidate ==
    (fn.op = "FindMatchingDocuments" /\ fn.done) =>
        /\ \A i \in 1..Len(fn.arg) :
             (\E n \in 1..Len(fn.result) : fn.result[n] = fn.arg[i]) <=>
             (\E k \in 1..Len(fn.arg2) :
                \/ EqualFold(fn.arg[i].Name, fn.arg2[k])
                \/ Contains(ToLower(fn.arg[i].Name), ToLower(fn.arg2[k])))
        /\ fn.arg2 = <<>> => fn.result = <<>>

\* one document matched by case folding alone, one by containment, one not
C5_Witness ==
    /\ fn.op = "FindMatchingDocuments"
    /\ fn.done
    /\ fn.arg = <<GoogleDocument("id1", <<"A", "b">>, <<>>),
                  GoogleDocument("id3", <<LongS>>, <<>>),
                  GoogleDocument("id2", <<"b">>, <<"d">>)>>
    /\ fn.arg2 = << <<"s">>, <<"a", "B">> >>
    /\ fn.result = <<fn.arg[1], fn.arg[2]>>

\* a validation or stage failure was reported: a message on standard error,
\* or the invalid selection
FailureReported ==
    \E i \in 1..Len(output) :
        \/ output[i].stream = "stderr"
        \/ output[i].text = "Invalid selection."

\* C6: the exit code is 1 when a validation or stage failure was reported,
\* a failed export included, and 0 on every other path.
C6_ExitCodes ==
    pc = "exit" => exitCode = (IF FailureReported THEN 1 ELSE 0)

\* the same with the export stage left out: 1 exactly when a failure was
\* reported before any export was attempted
C6_ExitCodesBeforeExport ==
    pc = "exit" =>
        exitCode = (IF \E i \in 1..Len(output) :
                          /\ output[i].text # "Error exporting"
                          /\ \/ output[i].stream = "stderr"
                             \/ output[i].text = "Invalid selection."
                    THEN 1 ELSE 0)

\* the ids of the documents handed to client.ExportDocument, in order
ExportedIDs == [i \in 1..Len(exports) |-> exports[i].ID]

MatchedIDs == [i \in 1..Len(matchingDocuments) |-> matchingDocuments[i].ID]

InvalidSelection ==
    /\ exitCode = 1
    /\ exports = <<>>
    /\ output = <<Message("stdout", "Invalid selection.", <<>>)>>

\* zero matches: no input, no export; one match: no input, that document
\* exported
SelectionWithoutPrompt ==
    /\ (Reconciled /\ Len(matchingDocuments) = 0) =>
          pc = "exit" /\ inputsRead = 0 /\ exports = <<>>
    /\ (Reconciled /\ Len(matchingDocuments) = 1) =>
          /\ inputsRead = 0
          /\ pc = "exit" => ExportedIDs = MatchedIDs
    /\ (Reconciled /\ Len(matchingDocuments) > 1) =>
          inputsRead = (IF pc = "choice" THEN 0 ELSE 1)

\* C7 as stated: with several matches one line is read; an integer in range
\* exports that match alone, "q" exports nothing, and every other input is
\* an invalid selection.
C7_AnyOtherInputInvalid ==
    /\ SelectionWithoutPrompt
    /\ (Reconciled /\ Len(matchingDocuments) > 1 /\ pc = "exit") =>
          LET parsed == Atoi(input)
          IN  IF ~parsed.err /\ parsed.value >= 1 /\ parsed.value <= Len(matchingDocuments)
              THEN ExportedIDs = <<matchingDocuments[parsed.value].ID>>
              ELSE IF input = <<"q">>
              THEN exports = <<>> /\ exitCode = 0
              ELSE InvalidSelection

\* C7, amended: the line read is trimmed and lowercased; then an integer in
\* range exports that match alone, "q" exports nothing, "all" exports every
\* match, and every other input is an invalid selection with no export; no
\* second line is ever read.
C7_Selection ==
    /\ SelectionWithoutPrompt
    /\ inputsRead <= 1
    /\ (Reconciled /\ Len(matchingDocuments) > 1 /\ pc = "exit") =>
          LET parsed == Atoi(input)
          IN  IF ~parsed.err /\ parsed.value >= 1 /\ parsed.value <= Len(matchingDocuments)
              THEN ExportedIDs = <<matchingDocuments[parsed.value].ID>>
              ELSE IF input = <<"q">>
              THEN exports = <<>> /\ exitCode = 0
              ELSE IF input = <<"a", "l", "l">>
              THEN ExportedIDs = MatchedIDs
              ELSE InvalidSelection

\* the second of two matches was chosen and exported alone
C7_Witness ==
    /\ pc = "exit"
    /\ Reconciled
    /\ Len(matchingDocuments) = 2
    /\ inputsRead = 1
    /\ input = <<"2">>
    /\ ExportedIDs = <<matchingDocuments[2].ID>>

\* the messages exportDocument printed, one per call
ExportMessages ==
    SelectSeq(output, LAMBDA m : m.text \in {"Error exporting", "Export complete!"})

\* C8: on "all" every matched document is handed to the export once, in the
\* order of the match list; a failed export is reported for its document and
\* the documents after it are still attempted.
C8_ExportAll ==
    (Reconciled /\ Len(matchingDocuments) > 1 /\ inputsRead = 1
       /\ input = <<"a", "l", "l">>) =>
        /\ pc \in {"export", "exit"}
        /\ Len(exports) <= Len(matchingDocuments)
        /\ ExportedIDs = SubSeq(MatchedIDs, 1, Len(exports))
        /\ pending = SubSeq(matchingDocuments, Len(exports) + 1, Len(matchingDocuments))
        /\ pc = "exit" => ExportedIDs = MatchedIDs
        /\ \A i, j \in 1..Len(exports) : i # j => exports[i].ID # exports[j].ID
        /\ Len(ExportMessages) = Len(exports)
        /\ \A i \in 1..Len(exports) :
             /\ ExportMessages[i].about = matchingDocuments[i].Name
             /\ (exports[i].err # "") <=> (ExportMessages[i] =
                    Message("stderr", "Error exporting", matchingDocuments[i].Name))

\* the first export failed and the second was made all the same
C8_Witness ==
    /\ pc = "exit"
    /\ Reconciled
    /\ input = <<"a", "l", "l">>
    /\ Len(matchingDocuments) = 2
    /\ Len(exports) = 2
    /\ exports[1].err # ""
    /\ exports[2].err = ""

\* the nine characters a file name may not hold
NineCharacters == {"\\", "/", ":", "*", "?", "\"", "<", ">", "|"}

\* C9: SanitizeFilename keeps the length of the name, puts one underscore in
\* the place of each of the nine characters, leaves every other character
\* where it is, returns none of the nine, and sanitizing its result again
\* changes nothing.
C9_SanitizeFilename ==
    (fn.op = "SanitizeFilename" /\ fn.done) =>
        /\ Len(fn.result) = Len(fn.arg)
        /\ \A i \in 1..Len(fn.arg) :
             i <= Len(fn.result) =>
               fn.result[i] = (IF fn.arg[i] \in NineCharacters THEN "_" ELSE fn.arg[i])
        /\ \A i \in 1..Len(fn.result) : fn.result[i] \notin NineCharacters
        /\ fn.again # <<>> => fn.again = fn.result

\* Report: Q1/Q2?, cut to the bound: a colon, a letter and a slash
C9_Witness ==
    /\ fn.op = "SanitizeFilename"
    /\ fn.arg = <<":", "a", "/">>
    /\ fn.result = <<"_", "a", "_">>
    /\ fn.again = <<"_", "a", "_">>

\* C10: a call of FilterDocuments sends one request, whatever comes back: no
\* request before the call, one after it, and an error ends the run at once
\* with no second request.
C10_OneRequestPerCall ==
    /\ httpResponse = NoResponse => requests = 0
    /\ httpResponse # NoResponse => requests = 1
    /\ filterErr # NoError =>
         /\ requests = 1
         /\ pc = "exit"
         /\ exitCode = 1
         /\ matchingNames = <<>>
         /\ output = <<Message("stderr", "Error filtering documents", <<>>)>>

C10_Witness ==
    /\ pc = "exit"
    /\ filterErr = ErrSend
    /\ httpResponse.transport = "fail"
    /\ requests = 1

\* the lines the loop of FilterDocuments saw in the call that has returned
ParsedLines ==
    IF fn.op = "FilterDocuments" /\ fn.done THEN 1..Len(fn.stages) ELSE {}

\* text without its first two characters
DropTwo(text) == SubSeq(text, 3, Len(text))

StartsWithDash(text) == Len(text) >= 2 /\ text[1] = "-" /\ text[2] = " "

StartsWithStar(text) == Len(text) >= 2 /\ text[1] = "*" /\ text[2] = " "

\* C11 as stated: after the first trim one bullet marker at most is removed
\* from a line, "- " if it leads, else "* " if it leads, never both.
C11_AtMostOneBullet ==
    \A k \in ParsedLines :
        LET trimmed == fn.stages[k].trimmed
        IN  fn.stages[k].unbulleted =
              (IF StartsWithDash(trimmed) THEN DropTwo(trimmed)
               ELSE IF StartsWithStar(trimmed) THEN DropTwo(trimmed)
               ELSE trimmed)

\* C11, amended: after the first trim a leading "- " is removed and then a
\* leading "* " of what remains is removed, so that "- * X" yields "X"; each
\* marker is removed once at most, and a "- " that follows a "* " stays.
C11_BulletsInSequence ==
    \A k \in ParsedLines :
        LET trimmed == fn.stages[k].trimmed
            undashed == IF StartsWithDash(trimmed) THEN DropTwo(trimmed) ELSE trimmed
        IN  /\ fn.stages[k].trimmed = TrimSpace(fn.stages[k].line)
            /\ fn.stages[k].unbulleted =
                 (IF StartsWithStar(undashed) THEN DropTwo(undashed) ELSE undashed)
            /\ Len(trimmed) - Len(fn.stages[k].unbulleted) \in {0, 2, 4}
            /\ Len(trimmed) - Len(fn.stages[k].unbulleted) = 4 =>
                 (StartsWithDash(trimmed) /\ StartsWithStar(DropTwo(trimmed)))

\* the line "- * X" lost both markers
C11_Witness ==
    \E k \in ParsedLines :
        /\ fn.stages[k].trimmed = <<"-", " ", "*", " ", "X">>
        /\ fn.stages[k].unbulleted = <<"X">>
        /\ fn.names = <<<<"X">>>>

\* text has '.' at index 1 and ' ' at index 2 and is longer than 3
FirstCheck(text) == Len(text) > 3 /\ text[2] = "." /\ text[3] = " "

\* text has '.' at index 2 and ' ' at index 3 and is longer than 4
SecondCheck(text) == Len(text) > 4 /\ text[3] = "." /\ text[4] = " "

\* C12: on every line the first prefix check removes 3 characters when it
\* applies and the second then removes 4 characters of the result when it
\* applies, whether or not the first did; so a line "<digit>. <name>", the
\* name without surrounding space, yields the name exactly when the name
\* does not meet the second check, and else the name cut by 4 characters.
C12_BothChecksInSequence ==
    \A k \in ParsedLines :
        LET unbulleted == fn.stages[k].unbulleted
            after3 == fn.stages[k].after3
            after4 == fn.stages[k].after4
            trimmed == fn.stages[k].trimmed
            name == SubSeq(trimmed, 4, Len(trimmed))
        IN  /\ after3 = (IF FirstCheck(unbulleted)
                         THEN SubSeq(unbulleted, 4, Len(unbulleted)) ELSE unbulleted)
            /\ after4 = (IF SecondCheck(after3)
                         THEN SubSeq(after3, 5, Len(after3)) ELSE after3)
            /\ (Len(trimmed) > 3 /\ IsDigit(trimmed[1]) /\ trimmed[2] = "."
                  /\ trimmed[3] = " " /\ ~IsSpace(name[1])) =>
                 /\ (fn.stages[k].cleaned = name) <=> ~SecondCheck(name)
                 /\ SecondCheck(name) =>
                      fn.stages[k].cleaned = TrimSpace(SubSeq(name, 5, Len(name)))

\* "1. ab. cd" lost the number and then the first four characters of the name
C12_Witness ==
    \E k \in ParsedLines :
        /\ fn.stages[k].trimmed = <<"1", ".", " ", "a", "b", ".", " ", "c", "d">>
        /\ fn.stages[k].after3 = <<"a", "b", ".", " ", "c", "d">>
        /\ fn.stages[k].cleaned = <<"c", "d">>

IsLetter(c) ==
    \E i \in 1..Len(Uppers) : c = Uppers[i] \/ c = Lowers[i]

\* C13: a prefix is removed only when it is a number: 3 characters only of
\* the shape digit, period, space, 4 characters only of the shape digit,
\* digit, period, space; a line that starts with a letter, a period and a
\* space is kept as it is.
C13_OnlyNumericPrefixes ==
    \A k \in ParsedLines :
        LET unbulleted == fn.stages[k].unbulleted
            after3 == fn.stages[k].after3
            after4 == fn.stages[k].after4
        IN  /\ after3 # unbulleted => IsDigit(unbulleted[1])
            /\ after4 # after3 => (IsDigit(after3[1]) /\ IsDigit(after3[2]))
            /\ (Len(unbulleted) > 3 /\ IsLetter(unbulleted[1])
                  /\ unbulleted[2] = "." /\ unbulleted[3] = " ") =>
                 fn.stages[k].cleaned = unbulleted

\* C14: for a content that is neither empty nor "NONE" once trimmed,
\* FilterDocuments returns, in line order and with repetitions, the cleaned
\* text of every line whose cleaned text is neither empty nor "NONE", and
\* nothing else; no returned name is empty or "NONE", and no line makes the
\* call fail.
C14_KeptLinesInOrder ==
    (fn.op = "FilterDocuments" /\ fn.done /\ ~BlankOrNone(fn.arg)) =>
        LET cleaned == [k \in 1..Len(fn.stages) |-> fn.stages[k].cleaned]
            kept == SelectSeq(cleaned, LAMBDA c : c # <<>> /\ c # NONE)
        IN  /\ fn.err = NoError
            /\ Len(fn.stages) >= 1
            /\ JoinLines([k \in 1..Len(fn.stages) |-> fn.stages[k].line])
                 = TrimSpace(fn.arg)
            /\ \A k \in 1..Len(fn.stages) :
                 \A i \in 1..Len(fn.stages[k].line) : fn.stages[k].line[i] # "\n"
            /\ fn.names = kept
            /\ \A n \in 1..Len(fn.names) : fn.names[n] # <<>> /\ fn.names[n] # NONE

\* a line that cleans to "NONE" was dropped and the line after it kept
C14_Witness ==
    /\ fn.op = "FilterDocuments"
    /\ fn.done
    /\ Len(fn.stages) = 2
    /\ fn.stages[1].line = <<"-", " ", "N", "O", "N", "E">>
    /\ fn.stages[1].cleaned = NONE
    /\ fn.stages[2].line = <<"1", ".", " ", "A", "b">>
    /\ fn.names = << <<"A", "b">> >>
    /\ fn.err = NoError

\* how far main has come
Rank(position) ==
    CASE position = "start" -> 0
      [] position = "format" -> 1
      [] position = "token" -> 2
      [] position = "client" -> 3
      [] position = "list" -> 4
      [] position = "key" -> 5
      [] position = "filter" -> 6
      [] position = "reconcile" -> 7
      [] position = "choice" -> 8
      [] position = "export" -> 9
      [] position = "exit" -> 10

\* a failure of a stage before the export was printed
StageFailures(messages) ==
    {i \in 1..Len(messages) :
        /\ messages[i].text # "Error exporting"
        /\ \/ messages[i].stream = "stderr"
           \/ messages[i].text = "Invalid selection."}

\* what holds of every state of a run
StagesSoFar ==
    /\ requests \in {0, 1}
    /\ requests = 1 =>
         /\ documents # <<>>
         /\ ~listOnly
         /\ tokenEnv = "json"
         /\ keyEnv = "set"
         /\ Rank(pc) > Rank("filter")
    /\ documents # <<>> => (tokenEnv = "json" /\ Rank(pc) > Rank("list"))
    /\ (listOnly \/ (Rank(pc) > Rank("list") /\ documents = <<>>)) =>
         (requests = 0 /\ inputsRead = 0 /\ exports = <<>> /\ pending = <<>>)
    /\ inputsRead # 0 => (requests = 1 /\ filterErr = NoError /\ Len(matchingDocuments) > 1)
    /\ (exports # <<>> \/ pending # <<>>) =>
         /\ requests = 1
         /\ filterErr = NoError
         /\ httpResponse # NoResponse
         /\ matchingDocuments # <<>>
         /\ Rank(pc) >= Rank("export")
    /\ StageFailures(output) # {} =>
         (pc = "exit" /\ exitCode = 1 /\ exports = <<>> /\ pending = <<>>)
    /\ filterErr # NoError => (inputsRead = 0 /\ matchingDocuments = <<>>)

\* what holds of every step of a run
StageStep ==
    /\ pc # "exit"
    /\ Rank(pc') > Rank(pc) \/ (pc = "export" /\ pc' = "export")
    /\ documents' # documents => (pc = "list" /\ requests = 0)
    /\ requests' # requests =>
         (pc = "filter" /\ documents # <<>> /\ ~listOnly /\ inputsRead = 0 /\ exports = <<>>)
    /\ matchingDocuments' # matchingDocuments => (pc = "reconcile" /\ filterErr = NoError)
    /\ inputsRead' # inputsRead => (pc = "choice" /\ requests = 1 /\ exports = <<>>)
    /\ exports' # exports =>
         (pc = "export" /\ requests = 1 /\ filterErr = NoError /\ matchingDocuments # <<>>)
    /\ StageFailures(output') # StageFailures(output) => (pc' = "exit" /\ exitCode' = 1)

\* C15: the stages of a run come in the order credential loading, listing,
\* matching, selection, export, and a failure before the export ends the
\* run: the matcher is called only after a listing that returned a document
\* and only when list-only is off; in list-only mode and on an empty listing
\* there is no matcher call and no export; an export is attempted only after
\* the matcher returned without error and reconciliation found a document.
C15_StageOrder == []StagesSoFar /\ [][StageStep]_vars

\* a run that went through every stage: listing, matching, selection, export
C15_Witness ==
    /\ pc = "exit"
    /\ requests = 1
    /\ inputsRead = 1
    /\ Len(documents) = 2
    /\ Len(exports) = 2

====
